---- MODULE Spec2Model ----
(***************************************************************************)
(* Lifecycle operations of the UniFi Network Controller Docker wrapper      *)
(* (controller.py, controllerlib/action.py, controllerlib/docker.py).       *)
(*                                                                          *)
(* One tool process runs one command (start, stop, backup, restore) at a    *)
(* time.  Every step of the process is one subprocess run by _run_command,  *)
(* so the Docker state may change between any two steps (Env* actions).     *)
(***************************************************************************)
EXTENDS Naturals, Sequences, FiniteSets, TLC

VARIABLES
    images,          \* Docker: set of local images, [Repository, Tag]
    containers,      \* Docker: container name -> Absent or [Status, rm]
    volumes,         \* Docker: set of volume names
    docker_cli_bin,  \* docker.py: _docker_cli_bin of the running process
    pc,              \* program point of the tool process
    op,              \* the command of action.py being run, with its arguments
    seen,            \* what this process read: image check, listings, archive
    calls,           \* every subprocess run by _run_command in this process
    result,          \* how the process ended
    live,            \* the server container a Start launched, until it is stopped or changed
    archive_tar      \* the archive file's content where it is fixed in advance, else Unread

vars == <<images, containers, volumes, docker_cli_bin, pc, op, seen, calls,
          result, live, archive_tar>>

docker == <<images, containers, volumes>>

-----------------------------------------------------------------------------
(* Bounds and inputs *)

MaxMembers == 4

SERVER_PREFIX_DEFAULT == "unifi-network-controller"

Prefixes == {SERVER_PREFIX_DEFAULT}

ImageTags == {"8.0.7"}

ArchiveDirs == {"/tmp"}

ArchiveNames == {"out.tar.gz"}

DockerBinPath == "/usr/bin/docker"

ExitCodes == {0, 1}

-----------------------------------------------------------------------------
(* action.py constants *)

CONTROLLER_REPOSITORY_NAME == "magnetikonline/unifi-network-controller"

CONTROLLER_PORT_COMMS == 8080

CONTROLLER_PORT_GUI == 8443

CONTROLLER_BASE_DIR == "/usr/lib/unifi"

BACKUP_REPOSITORY_NAME == "alpine"

BACKUP_RESTORE_BACKUP_PATH == "/backup"

BACKUP_RESTORE_VOLUME_MOUNT_PATH == "/data"

BACKUP_ARCHIVE_KEY_FILE_LIST ==
    <<"./db/version", "./db/WiredTiger", "./firmware.json", "./system.properties">>

DOCKER_CLI_ARG_FORMAT_JSON == "--format={{json .}}"

-----------------------------------------------------------------------------
(* Generic helpers *)

Range(s) == {s[i] : i \in 1..Len(s)}

SeqsUpTo(S, n) == UNION {[1..k -> S] : k \in 0..n}

RECURSIVE FlatPairs(_, _)
\* run_arg_list.extend([flag, render(x)]) for every x of the list, in order
FlatPairs(flag, rendered) ==
    IF rendered = <<>> THEN <<>>
    ELSE <<flag, Head(rendered)>> \o FlatPairs(flag, Tail(rendered))

-----------------------------------------------------------------------------
(* Resource naming *)

_container_server_name(server_prefix) == server_prefix \o "-server"

_volume_data_name(server_prefix) == server_prefix \o "-data"

_volume_logs_name(server_prefix) == server_prefix \o "-logs"

ContainerUniverse == {_container_server_name(p) : p \in Prefixes}

VolumeUniverse ==
    {_volume_data_name(p) : p \in Prefixes} \cup {_volume_logs_name(p) : p \in Prefixes}

ImageUniverse ==
    {[Repository |-> CONTROLLER_REPOSITORY_NAME, Tag |-> t] : t \in ImageTags}
        \cup {[Repository |-> BACKUP_REPOSITORY_NAME, Tag |-> "latest"]}

-----------------------------------------------------------------------------
(* Docker state as `docker ps --all` prints it *)

Absent == [Status |-> <<>>, rm |-> FALSE]

StatusUp == <<"Up", "2", "hours">>

StatusExited == <<"Exited", "(0)", "2", "hours", "ago">>

StatusCreated == <<"Created">>

\* containers made outside the tool are kept when they stop; the tool's own
\* server container is started with --rm
ExternalContainers ==
    {[Status |-> s, rm |-> FALSE] : s \in {StatusUp, StatusExited, StatusCreated}}

-----------------------------------------------------------------------------
(* docker.py: the runtime client *)

\* find_cli() with the cache never consulted: `which docker` runs on every call
find_cli_no_cache(bin) ==
    {[found |-> TRUE, bin |-> DockerBinPath,
      ran |-> <<[argv |-> <<"which", "docker">>, code |-> 0]>>],
     [found |-> FALSE, bin |-> bin,
      ran |-> <<[argv |-> <<"which", "docker">>, code |-> 1]>>]}

\* find_cli(): the cached path answers without a subprocess; otherwise `which
\* docker` runs once and its first output line is cached when it exits zero
find_cli(bin) ==
    IF bin # ""
    THEN {[found |-> TRUE, bin |-> bin, ran |-> <<>>]}
    ELSE {[found |-> TRUE, bin |-> DockerBinPath,
           ran |-> <<[argv |-> <<"which", "docker">>, code |-> 0]>>],
          [found |-> FALSE, bin |-> "",
           ran |-> <<[argv |-> <<"which", "docker">>, code |-> 1]>>]}

\* the argument lists are given without their first element, _docker_cli_bin,
\* which ClientCall puts in front
image_list_args == <<"images", DOCKER_CLI_ARG_FORMAT_JSON>>

container_list_args == <<"ps", "--all", DOCKER_CLI_ARG_FORMAT_JSON>>

volume_list_args == <<"volume", "ls", DOCKER_CLI_ARG_FORMAT_JSON>>

image_pull_args(repository, tag) == <<"pull", "--quiet", repository \o ":" \o tag>>

volume_create_args(name) == <<"volume", "create", name>>

volume_delete_args(name) == <<"volume", "rm", name>>

\* the stop call naming the container by a name filter instead of its name
container_stop_args_by_filter(name) == <<"stop", "name=" \o name>>

container_stop_args(name) == <<"stop", name>>

bind_mount(b) == "type=bind,src=" \o b[1] \o ",dst=" \o b[2]

volume_mount(v) == "type=volume,src=" \o v[1] \o ",dst=" \o v[2]

publish_port(p) == ToString(p[1]) \o ":" \o ToString(p[2]) \o "/tcp"

\* the argument list with the ports published whatever network_host says
container_run_args_always_publish(spec) ==
    <<"run">>
    \o (IF spec.detach THEN <<"--detach">> ELSE <<>>)
    \o FlatPairs("--mount", [i \in 1..Len(spec.bind_list) |-> bind_mount(spec.bind_list[i])])
    \o FlatPairs("--mount",
                 [i \in 1..Len(spec.volume_list) |-> volume_mount(spec.volume_list[i])])
    \o (IF spec.name # <<>> THEN <<"--name", spec.name[1]>> ELSE <<>>)
    \o (IF spec.network_host THEN <<"--network", "host">> ELSE <<>>)
    \o FlatPairs("--publish",
                 [i \in 1..Len(spec.publish_list) |-> publish_port(spec.publish_list[i])])
    \o (IF spec.remove_on_exit THEN <<"--rm">> ELSE <<>>)
    \o <<spec.image_repository \o ":" \o spec.image_tag>>
    \o spec.command_arg_list

\* container_run(): the argument list, built in the order of the code.  `name`
\* is <<>> for None and <<n>> for a name.
container_run_args(spec) ==
    <<"run">>
    \o (IF spec.detach THEN <<"--detach">> ELSE <<>>)
    \o FlatPairs("--mount", [i \in 1..Len(spec.bind_list) |-> bind_mount(spec.bind_list[i])])
    \o FlatPairs("--mount",
                 [i \in 1..Len(spec.volume_list) |-> volume_mount(spec.volume_list[i])])
    \o (IF spec.name # <<>> THEN <<"--name", spec.name[1]>> ELSE <<>>)
    \o (IF spec.network_host THEN <<"--network", "host">> ELSE <<>>)
    \o (IF ~spec.network_host
        THEN FlatPairs("--publish",
                       [i \in 1..Len(spec.publish_list) |-> publish_port(spec.publish_list[i])])
        ELSE <<>>)
    \o (IF spec.remove_on_exit THEN <<"--rm">> ELSE <<>>)
    \o <<spec.image_repository \o ":" \o spec.image_tag>>
    \o spec.command_arg_list

\* the defaults of container_run's keyword arguments
RunDefaults ==
    [image_tag |-> "latest", bind_list |-> <<>>, command_arg_list |-> <<>>,
     detach |-> FALSE, name |-> <<>>, network_host |-> FALSE, publish_list |-> <<>>,
     remove_on_exit |-> FALSE, volume_list |-> <<>>]

\* what `docker run` may write to stdout on success, as the pieces of the text
\* between its newlines: "", "c0ffee\n", "c0ffee", "warning\nc0ffee\n"
RunOutputs == {<<"">>, <<"c0ffee", "">>, <<"c0ffee">>, <<"warning", "c0ffee", "">>}

\* output.rstrip(): the newlines at the end dropped
RECURSIVE rstrip(_)
rstrip(output) ==
    IF Len(output) > 1 /\ output[Len(output)] = ""
    THEN rstrip(SubSeq(output, 1, Len(output) - 1))
    ELSE output

\* _RunCommandResult.split(): output.rstrip().split("\n"), and [] for [""]
split(output) ==
    LET line_list == rstrip(output) IN
    IF Len(line_list) = 1 /\ line_list[1] = "" THEN <<>> ELSE line_list

\* the lines `docker run` may print on success
RunStdouts == {split(output) : output \in RunOutputs}

\* the first line taken as the container id whenever there is one
container_run_value_first_line(stdout) == IF Len(stdout) >= 1 THEN stdout[1] ELSE "False"

\* container_run(): one line of output is the container id, anything else False
container_run_value(stdout) == IF Len(stdout) = 1 THEN stdout[1] ELSE "False"

\* image_list(): (repository:tag, record) for every line of `docker images`
image_list(imgs) ==
    {<<i.Repository \o ":" \o i.Tag, [repository |-> i.Repository, tag |-> i.Tag]>> :
        i \in imgs}

\* running: status.startswith("Up ")
running(status) == Len(status) > 1 /\ status[1] = "Up"

\* container_list(): (name, record) for every line of `docker ps --all`
container_list(cs) ==
    {<<n, [running |-> running(cs[n].Status), status |-> cs[n].Status]>> :
        n \in {m \in DOMAIN cs : cs[m] # Absent}}

\* volume_list(): the names of `docker volume ls`
volume_list(vs) == vs

\* dict(pairs).keys()
Keys(pairs) == {p[1] : p \in pairs}

\* a client call with _cli_exists() left out: the command is run with whatever
\* _docker_cli_bin holds
ClientCall_unchecked(args, message) ==
    {[bin |-> docker_cli_bin,
      ran |-> <<[argv |-> <<docker_cli_bin>> \o args, code |-> c]>>,
      error |-> IF c # 0 THEN message ELSE ""] : c \in ExitCodes}

\* One client call: _cli_exists() and then _run_command([_docker_cli_bin] + args).
\* `error` is the message of the DockerError raised, "" when the call returned.
ClientCall(args, message) ==
    {[bin |-> f.bin, ran |-> f.ran, error |-> "unable to locate Docker CLI"] :
        f \in {g \in find_cli(docker_cli_bin) : ~g.found}}
    \cup
    {[bin |-> x[1].bin,
      ran |-> x[1].ran \o <<[argv |-> <<x[1].bin>> \o args, code |-> x[2]]>>,
      error |-> IF x[2] # 0 THEN message ELSE ""] :
        x \in {g \in find_cli(docker_cli_bin) : g.found} \X ExitCodes}

-----------------------------------------------------------------------------
(* action.py: archives and their verification *)

MemberNames == Range(BACKUP_ARCHIVE_KEY_FILE_LIST) \cup {"./data/keystore"}

\* a file that cannot be opened (OSError), one that is no tar file (TarError),
\* or a tar file with its member names in archive order (names may repeat)
Archives ==
    {[kind |-> k, members |-> <<>>] : k \in {"unreadable", "not_tar"}}
        \cup {[kind |-> "tar", members |-> m] : m \in SeqsUpTo(MemberNames, MaxMembers)}

Unread == [kind |-> "unread", members |-> <<>>]

RECURSIVE key_file_count(_)
\* the loop over archive_tar.getmembers(): one more for every member whose
\* name is in BACKUP_ARCHIVE_KEY_FILE_LIST
key_file_count(members) ==
    IF members = <<>> THEN 0
    ELSE (IF Head(members) \in Range(BACKUP_ARCHIVE_KEY_FILE_LIST) THEN 1 ELSE 0)
         + key_file_count(Tail(members))

\* _restore_verify_archive(): the message of the FatalError raised, "" when
\* the archive passed
_restore_verify_archive(archive, archive_path) ==
    IF archive.kind = "unreadable"
    THEN "unable to open archive [" \o archive_path \o "]"
    ELSE IF archive.kind = "not_tar"
    THEN "it appears [" \o archive_path \o "] is not a tar file"
    ELSE IF key_file_count(archive.members) < Len(BACKUP_ARCHIVE_KEY_FILE_LIST)
    THEN "archive [" \o archive_path \o "] doesn't appear to be a controller data backup"
    ELSE ""

-----------------------------------------------------------------------------
(* action.py: commands *)

OsUid == "1000"

OsGid == "1000"

_backup_archive_cmd(file) ==
    "/bin/tar c -zf \"" \o file \o "\" -C \"" \o BACKUP_RESTORE_VOLUME_MOUNT_PATH
        \o "\" . && chown " \o OsUid \o ":" \o OsGid \o " \"" \o file \o "\""

_restore_archive_cmd(file) ==
    "cd \"" \o BACKUP_RESTORE_VOLUME_MOUNT_PATH \o "\" && tar x -f \"" \o file \o "\""

\* the container_run() call of start_server
StartRunSpec(o) ==
    [RunDefaults EXCEPT
        !.image_tag = o.image_tag,
        !.detach = TRUE,
        !.name = <<_container_server_name(o.server_prefix)>>,
        !.network_host = ~o.no_host_network,
        !.publish_list = <<<<CONTROLLER_PORT_COMMS, CONTROLLER_PORT_COMMS>>,
                           <<CONTROLLER_PORT_GUI, CONTROLLER_PORT_GUI>>>>,
        !.remove_on_exit = TRUE,
        !.volume_list = <<<<_volume_data_name(o.server_prefix), CONTROLLER_BASE_DIR \o "/data">>,
                          <<_volume_logs_name(o.server_prefix), CONTROLLER_BASE_DIR \o "/logs">>>>]
    @@ [image_repository |-> CONTROLLER_REPOSITORY_NAME]

\* the backup run with the logs volume mounted next to the data volume
BackupRunSpec_with_logs(o) ==
    [RunDefaults EXCEPT
        !.bind_list = <<<<o.archive_dir, BACKUP_RESTORE_BACKUP_PATH>>>>,
        !.command_arg_list =
            <<"/bin/sh", "-c",
              _backup_archive_cmd(BACKUP_RESTORE_BACKUP_PATH \o "/" \o o.archive_name)>>,
        !.remove_on_exit = TRUE,
        !.volume_list = <<<<_volume_data_name(o.server_prefix),
                            BACKUP_RESTORE_VOLUME_MOUNT_PATH>>,
                          <<_volume_logs_name(o.server_prefix),
                            BACKUP_RESTORE_VOLUME_MOUNT_PATH \o "/logs">>>>]
    @@ [image_repository |-> BACKUP_REPOSITORY_NAME]

\* the container_run() call of backup
BackupRunSpec(o) ==
    [RunDefaults EXCEPT
        !.bind_list = <<<<o.archive_dir, BACKUP_RESTORE_BACKUP_PATH>>>>,
        !.command_arg_list =
            <<"/bin/sh", "-c",
              _backup_archive_cmd(BACKUP_RESTORE_BACKUP_PATH \o "/" \o o.archive_name)>>,
        !.remove_on_exit = TRUE,
        !.volume_list = <<<<_volume_data_name(o.server_prefix),
                            BACKUP_RESTORE_VOLUME_MOUNT_PATH>>>>]
    @@ [image_repository |-> BACKUP_REPOSITORY_NAME]

\* the container_run() call of restore
RestoreRunSpec(o) ==
    [RunDefaults EXCEPT
        !.bind_list = <<<<o.archive_dir, BACKUP_RESTORE_BACKUP_PATH>>>>,
        !.command_arg_list =
            <<"/bin/sh", "-c",
              _restore_archive_cmd(BACKUP_RESTORE_BACKUP_PATH \o "/" \o o.archive_name)>>,
        !.remove_on_exit = TRUE,
        !.volume_list = <<<<_volume_data_name(o.server_prefix),
                            BACKUP_RESTORE_VOLUME_MOUNT_PATH>>>>]
    @@ [image_repository |-> BACKUP_REPOSITORY_NAME]

-----------------------------------------------------------------------------
(* The tool process *)

NoOp ==
    [command |-> "", server_prefix |-> "", image_tag |-> "", no_host_network |-> FALSE,
     archive_dir |-> "", archive_name |-> ""]

\* <<>> while the listing was not taken, <<listing>> once it was
NothingSeen ==
    [image |-> <<>>, containers |-> <<>>, volumes |-> <<>>, archive |-> <<>>,
     stdout |-> <<>>, in_use |-> <<>>]

NoResult == [kind |-> "running", msg |-> ""]

\* by: "this" while the process that started the container runs, "earlier" after
NotLive == [name |-> "", by |-> ""]

Commands ==
    {[NoOp EXCEPT !.command = "start", !.server_prefix = p, !.image_tag = t,
                  !.no_host_network = n] :
        p \in Prefixes, t \in ImageTags, n \in BOOLEAN}
    \cup {[NoOp EXCEPT !.command = "stop", !.server_prefix = p] : p \in Prefixes}
    \cup {[NoOp EXCEPT !.command = c, !.server_prefix = p, !.archive_dir = d,
                       !.archive_name = f] :
            c \in {"backup", "restore"}, p \in Prefixes, d \in ArchiveDirs,
            f \in ArchiveNames}

\* main(): where each command starts
EntryPoint(command) ==
    CASE command = "start" -> "_image_pull:image_list"
      [] command = "stop" -> "stop_server:container_list"
      [] command = "backup" -> "backup:volume_list"
      [] command = "restore" -> "restore:_restore_verify_archive"

\* the image _image_pull() is called for
OpImage(o) ==
    IF o.command = "start"
    THEN [Repository |-> CONTROLLER_REPOSITORY_NAME, Tag |-> o.image_tag]
    ELSE [Repository |-> BACKUP_REPOSITORY_NAME, Tag |-> "latest"]

\* restore going from _image_pull() straight to the run, the volume left to
\* the run's mount
AfterImagePull_restore_no_create(o) ==
    CASE o.command = "start" -> "start_server:container_list"
      [] o.command = "backup" -> "backup:container_run"
      [] o.command = "restore" -> "restore:container_run"

\* what follows the return of _image_pull()
AfterImagePull(o) ==
    CASE o.command = "start" -> "start_server:container_list"
      [] o.command = "backup" -> "backup:container_run"
      [] o.command = "restore" -> "_volume_create:data"

\* _volume_create() called without the listing: the default set() is empty
_volume_create_skips_default(name, existing_volume_list) == name \in {}

\* _volume_create(): name in existing_volume_list means no work
_volume_create_skips(name, existing_volume_list) == name \in existing_volume_list

\* start_server with the _volume_create() call for the logs volume left out
AfterStartDataVolume_no_logs(o, existing) == "start_server:container_run"

\* start_server: the program point after _volume_create(volume_name_data, ..)
AfterStartDataVolume(o, existing) ==
    IF _volume_create_skips(_volume_logs_name(o.server_prefix), existing)
    THEN "start_server:container_run"
    ELSE "_volume_create:logs"

\* start_server: the program point after docker.volume_list()
AfterStartVolumeList(o, existing) ==
    IF _volume_create_skips(_volume_data_name(o.server_prefix), existing)
    THEN AfterStartDataVolume(o, existing)
    ELSE "_volume_create:data"

\* the failure swallowed and the step attempted again
Fatal_retry(msg) ==
    /\ pc' = pc
    /\ result' = result

\* exit_error() on a FatalError caught by main()
Fatal(msg) ==
    /\ pc' = "done"
    /\ result' = [kind |-> "FatalError", msg |-> msg]

\* a DockerError no handler catches: the process dies with it
Uncaught(msg) ==
    /\ pc' = "done"
    /\ result' = [kind |-> "DockerError", msg |-> msg]

Completed(msg) ==
    /\ pc' = "done"
    /\ result' = [kind |-> "ok", msg |-> msg]

Ran(a) ==
    /\ docker_cli_bin' = a.bin
    /\ calls' = calls \o a.ran

Init ==
    /\ images = {}
    /\ containers = [n \in ContainerUniverse |-> Absent]
    /\ volumes = {}
    /\ docker_cli_bin = ""
    /\ pc = "idle"
    /\ op = NoOp
    /\ seen = NothingSeen
    /\ calls = <<>>
    /\ result = NoResult
    /\ live = NotLive
    /\ archive_tar = Unread

\* main(): read_arguments(), find_cli(), then the command
Main ==
    /\ pc = "idle"
    /\ \E o \in Commands, f \in find_cli(docker_cli_bin) :
        /\ docker_cli_bin' = f.bin
        /\ calls' = f.ran
        /\ IF f.found
           THEN op' = o /\ pc' = EntryPoint(o.command) /\ result' = NoResult
           ELSE \* exit_error(): no command of action.py is entered
                /\ op' = NoOp
                /\ pc' = "done"
                /\ result' = [kind |-> "exit_error", msg |-> "unable to find Docker CLI"]
    /\ UNCHANGED <<docker, seen, live, archive_tar>>

\* the process ends; the next one starts with an empty _docker_cli_bin
Exit ==
    /\ pc = "done"
    /\ pc' = "idle"
    /\ docker_cli_bin' = ""
    /\ op' = NoOp
    /\ seen' = NothingSeen
    /\ calls' = <<>>
    /\ result' = NoResult
    /\ live' = IF live.by = "this" THEN [live EXCEPT !.by = "earlier"] ELSE live
    /\ UNCHANGED <<docker, archive_tar>>

-----------------------------------------------------------------------------
(* _image_pull() and _volume_create(), shared by the commands *)

ImageName(i) == i.Repository \o ":" \o i.Tag

\* _image_pull(): image_name in dict(docker.image_list()) means no work
_image_pull_no_work(listing, image) == ImageName(image) \in Keys(listing)

\* _image_pull(): docker.image_list() is called outside any try block
_image_pull_image_list ==
    /\ pc = "_image_pull:image_list"
    /\ \E a \in ClientCall(image_list_args, "unable to list images") :
        /\ Ran(a)
        /\ IF a.error # ""
           THEN Uncaught(a.error) /\ UNCHANGED seen
           ELSE LET present == _image_pull_no_work(image_list(images), OpImage(op)) IN
                /\ seen' = [seen EXCEPT !.image = <<present>>]
                /\ pc' = IF present THEN AfterImagePull(op) ELSE "_image_pull:image_pull"
                /\ UNCHANGED result
    /\ UNCHANGED <<docker, op, live, archive_tar>>

\* _image_pull(): docker.image_pull() inside try/except DockerError
_image_pull_image_pull ==
    /\ pc = "_image_pull:image_pull"
    /\ LET i == OpImage(op) IN
       \E a \in ClientCall(image_pull_args(i.Repository, i.Tag), "unable to pull image") :
        /\ Ran(a)
        /\ IF a.error # ""
           THEN Fatal("unable to pull [" \o ImageName(i) \o "]") /\ UNCHANGED images
           ELSE /\ images' = images \cup {i}
                /\ pc' = AfterImagePull(op)
                /\ UNCHANGED result
    /\ UNCHANGED <<containers, volumes, op, seen, live, archive_tar>>

\* _volume_create(name, ..) once it found the name missing: docker.volume_create()
\* inside try/except DockerError
VolumeCreate(name, next) ==
    \E a \in ClientCall(volume_create_args(name), "unable to create volume") :
        /\ Ran(a)
        /\ IF a.error # ""
           THEN Fatal("unable to create volume [" \o name \o "]") /\ UNCHANGED volumes
           ELSE /\ volumes' = volumes \cup {name}
                /\ pc' = next
                /\ UNCHANGED result

\* _volume_create(volume_name_data, ..) of start_server and of restore
_volume_create_data ==
    /\ pc = "_volume_create:data"
    /\ VolumeCreate(_volume_data_name(op.server_prefix),
                    IF op.command = "start"
                    THEN AfterStartDataVolume(op, seen.volumes[1])
                    ELSE "restore:container_run")
    /\ UNCHANGED <<images, containers, op, seen, live, archive_tar>>

\* _volume_create(volume_name_logs, volume_list) of start_server
_volume_create_logs ==
    /\ pc = "_volume_create:logs"
    /\ VolumeCreate(_volume_logs_name(op.server_prefix), "start_server:container_run")
    /\ UNCHANGED <<images, containers, op, seen, live, archive_tar>>

-----------------------------------------------------------------------------
(* start_server() *)

\* what a successful `docker run` of the given specification does to Docker:
\* a missing image is pulled and missing named volumes are created
RunEffects(spec) ==
    /\ images' = images \cup {[Repository |-> spec.image_repository, Tag |-> spec.image_tag]}
    /\ volumes' = volumes \cup {spec.volume_list[i][1] : i \in 1..Len(spec.volume_list)}

\* the check with the running flag consulted: a stopped container would pass
start_server_exists_running_only(listing, container_name) ==
    \E p \in listing : p[1] = container_name /\ p[2].running

\* the check on the generator itself, dict() forgotten: the name is compared
\* with (name, record) pairs and equals none of them
start_server_exists_no_dict(listing, container_name) ==
    \E p \in listing : p[1] = container_name /\ Len(p) = 1

\* start_server(): container_name in dict(docker.container_list())
start_server_exists(listing, container_name) == container_name \in Keys(listing)

\* start_server(): the container listing and the "already exists" check
start_server_container_list ==
    /\ pc = "start_server:container_list"
    /\ \E a \in ClientCall(container_list_args, "unable to list containers") :
        /\ Ran(a)
        /\ IF a.error # ""
           THEN Uncaught(a.error) /\ UNCHANGED seen
           ELSE LET listing == container_list(containers)
                    container_name == _container_server_name(op.server_prefix) IN
                /\ seen' = [seen EXCEPT !.containers = <<listing>>]
                /\ IF start_server_exists(listing, container_name)
                   THEN Fatal("container [" \o container_name \o "] already exists")
                   ELSE pc' = "start_server:volume_list" /\ UNCHANGED result
    /\ UNCHANGED <<docker, op, live, archive_tar>>

\* start_server(): the volume listing, kept for both _volume_create() calls
start_server_volume_list ==
    /\ pc = "start_server:volume_list"
    /\ \E a \in ClientCall(volume_list_args, "unable to list volumes") :
        /\ Ran(a)
        /\ IF a.error # ""
           THEN Uncaught(a.error) /\ UNCHANGED seen
           ELSE LET listing == volume_list(volumes) IN
                /\ seen' = [seen EXCEPT !.volumes = <<listing>>]
                /\ pc' = AfterStartVolumeList(op, listing)
                /\ UNCHANGED result
    /\ UNCHANGED <<docker, op, live, archive_tar>>

\* the run call behind a second look at the containers: with the name in use
\* no subprocess is run and the call is given up
start_server_run_call_rechecked(spec) ==
    IF containers[spec.name[1]] # Absent
    THEN {[bin |-> docker_cli_bin, ran |-> <<>>, error |-> "container exists"]}
    ELSE ClientCall(container_run_args(spec), "unable to run image")

\* start_server(): the outcomes of docker.container_run(), called with no
\* second look at the containers
start_server_run_call(spec) == ClientCall(container_run_args(spec), "unable to run image")

\* the run with a rollback: a failed run removes the volumes of the prefix
\* that were missing from the listing
start_server_container_run_rollback ==
    /\ pc = "start_server:container_run"
    /\ LET spec == StartRunSpec(op)
           container_name == spec.name[1] IN
       \E a \in start_server_run_call(spec) :
        /\ Ran(a)
        /\ IF a.error # ""
           THEN /\ Fatal("unable to start server")
                /\ seen' = [seen EXCEPT !.in_use = <<containers[container_name] # Absent>>]
                /\ volumes' = volumes \ ({_volume_data_name(op.server_prefix),
                                          _volume_logs_name(op.server_prefix)}
                                            \ seen.volumes[1])
                /\ UNCHANGED <<images, containers, live>>
           ELSE /\ containers[container_name] = Absent
                /\ containers' = [containers EXCEPT
                                    ![container_name] = [Status |-> StatusUp, rm |-> TRUE]]
                /\ RunEffects(spec)
                /\ live' = [name |-> container_name, by |-> "this"]
                /\ \E output \in RunOutputs :
                    /\ seen' = [seen EXCEPT !.stdout = <<output>>, !.in_use = <<FALSE>>]
                    /\ Completed("Running as container ID ["
                                 \o container_run_value(split(output)) \o "]")
    /\ UNCHANGED <<op, archive_tar>>

\* start_server(): docker.container_run() inside try/except DockerError
start_server_container_run ==
    /\ pc = "start_server:container_run"
    /\ LET spec == StartRunSpec(op)
           container_name == spec.name[1] IN
       \E a \in start_server_run_call(spec) :
        /\ Ran(a)
        /\ IF a.error # ""
           THEN /\ Fatal("unable to start server")
                /\ seen' = [seen EXCEPT !.in_use = <<containers[container_name] # Absent>>]
                /\ UNCHANGED <<docker, live>>
           ELSE \* Docker refuses a name that is in use
                /\ containers[container_name] = Absent
                /\ containers' = [containers EXCEPT
                                    ![container_name] = [Status |-> StatusUp, rm |-> TRUE]]
                /\ RunEffects(spec)
                /\ live' = [name |-> container_name, by |-> "this"]
                /\ \E output \in RunOutputs :
                    /\ seen' = [seen EXCEPT !.stdout = <<output>>, !.in_use = <<FALSE>>]
                    /\ Completed("Running as container ID ["
                                 \o container_run_value(split(output)) \o "]")
    /\ UNCHANGED <<op, archive_tar>>

-----------------------------------------------------------------------------
(* stop_server() *)

\* dict(listing)[name]
Lookup(listing, name) == (CHOOSE p \in listing : p[1] = name)[2]

\* the checks with the running test left out
stop_server_check_exists_only(listing, container_name) ==
    IF container_name \notin Keys(listing)
    THEN "container [" \o container_name \o "] not does exist"
    ELSE ""

\* stop_server(): the message of the FatalError of the two precondition
\* checks, "" when the container exists and is running
stop_server_check(listing, container_name) ==
    IF container_name \notin Keys(listing)
    THEN "container [" \o container_name \o "] not does exist"
    ELSE IF ~Lookup(listing, container_name).running
    THEN "container [" \o container_name \o "] not running"
    ELSE ""

\* stop_server(): the container listing and the two precondition checks
stop_server_container_list ==
    /\ pc = "stop_server:container_list"
    /\ \E a \in ClientCall(container_list_args, "unable to list containers") :
        /\ Ran(a)
        /\ IF a.error # ""
           THEN Uncaught(a.error) /\ UNCHANGED seen
           ELSE LET listing == container_list(containers)
                    container_name == _container_server_name(op.server_prefix) IN
                /\ seen' = [seen EXCEPT !.containers = <<listing>>]
                /\ IF stop_server_check(listing, container_name) # ""
                   THEN Fatal(stop_server_check(listing, container_name))
                   ELSE pc' = "stop_server:container_stop" /\ UNCHANGED result
    /\ UNCHANGED <<docker, op, live, archive_tar>>

\* stop_server(): docker.container_stop() inside try/except DockerError
stop_server_container_stop ==
    /\ pc = "stop_server:container_stop"
    /\ LET container_name == _container_server_name(op.server_prefix) IN
       \E a \in ClientCall(container_stop_args(container_name), "unable to stop container") :
        /\ Ran(a)
        /\ IF a.error # ""
           THEN Fatal("unable to stop server") /\ UNCHANGED <<containers, live>>
           ELSE \* Docker stops a container that exists; --rm then removes it
                /\ containers[container_name] # Absent
                /\ containers' = [containers EXCEPT
                                    ![container_name] =
                                        IF @.rm THEN Absent
                                        ELSE [Status |-> StatusExited, rm |-> FALSE]]
                /\ live' = IF live.name = container_name THEN NotLive ELSE live
                /\ Completed("Server has stopped")
    /\ UNCHANGED <<images, volumes, op, seen, archive_tar>>

-----------------------------------------------------------------------------
(* backup() *)

\* the check made on the logs volume instead of the data volume
backup_volume_missing_logs(listing, server_prefix) ==
    _volume_logs_name(server_prefix) \notin listing

\* backup(): volume_name_data not in dict(docker.volume_list())
backup_volume_missing(listing, server_prefix) ==
    _volume_data_name(server_prefix) \notin listing

\* backup(): the volume listing and the "does not exist" check
backup_volume_list ==
    /\ pc = "backup:volume_list"
    /\ \E a \in ClientCall(volume_list_args, "unable to list volumes") :
        /\ Ran(a)
        /\ IF a.error # ""
           THEN Uncaught(a.error) /\ UNCHANGED seen
           ELSE LET listing == volume_list(volumes)
                    volume_name_data == _volume_data_name(op.server_prefix) IN
                /\ seen' = [seen EXCEPT !.volumes = <<listing>>]
                /\ IF backup_volume_missing(listing, op.server_prefix)
                   THEN Fatal("data volume [" \o volume_name_data
                              \o "] does not exist for backup")
                   ELSE pc' = "_image_pull:image_list" /\ UNCHANGED result
    /\ UNCHANGED <<docker, op, live, archive_tar>>

\* backup(): docker.container_run() inside try/except DockerError
backup_container_run ==
    /\ pc = "backup:container_run"
    /\ LET spec == BackupRunSpec(op) IN
       \E a \in ClientCall(container_run_args(spec), "unable to run image") :
        /\ Ran(a)
        /\ IF a.error # ""
           THEN /\ Fatal("unable to backup data volume ["
                         \o _volume_data_name(op.server_prefix) \o "]")
                /\ UNCHANGED <<images, volumes>>
           ELSE /\ RunEffects(spec)
                /\ Completed("Backup successfully created at [" \o op.archive_dir \o "/"
                             \o op.archive_name \o "]")
    /\ UNCHANGED <<containers, op, seen, live, archive_tar>>

-----------------------------------------------------------------------------
(* restore() *)

\* _restore_verify_archive(path) on an archive file with the given content;
\* seen.archive notes what kind of file it was and whether every key file is
\* among its members
VerifyArchive(archive) ==
    /\ pc = "restore:_restore_verify_archive"
    /\ LET message == _restore_verify_archive(archive,
                                              op.archive_dir \o "/" \o op.archive_name) IN
        /\ seen' = [seen EXCEPT
                      !.archive = <<[kind |-> archive.kind,
                                     complete |-> Range(BACKUP_ARCHIVE_KEY_FILE_LIST)
                                                  \subseteq Range(archive.members)]>>]
        /\ IF message # ""
           THEN Fatal(message)
           ELSE pc' = "restore:container_list" /\ UNCHANGED result
    /\ UNCHANGED <<docker, docker_cli_bin, op, calls, live, archive_tar>>

\* restore(): the archive at the given path is whatever the file system holds
restore_verify_archive ==
    /\ archive_tar = Unread
    /\ \E archive \in Archives : VerifyArchive(archive)

\* the loop with the running flag ignored: any container of that name blocks
restore_container_running_any(listing, container_name) ==
    \E p \in listing : p[1] = container_name

\* restore(): the loop over docker.container_list() that raises on
\* name == container_name and data["running"]
restore_container_running(listing, container_name) ==
    \E p \in listing : p[1] = container_name /\ p[2].running

\* restore(): the container listing and the "currently running" check
restore_container_list ==
    /\ pc = "restore:container_list"
    /\ \E a \in ClientCall(container_list_args, "unable to list containers") :
        /\ Ran(a)
        /\ IF a.error # ""
           THEN Uncaught(a.error) /\ UNCHANGED seen
           ELSE LET listing == container_list(containers)
                    container_name == _container_server_name(op.server_prefix) IN
                /\ seen' = [seen EXCEPT !.containers = <<listing>>]
                /\ IF restore_container_running(listing, container_name)
                   THEN Fatal("container [" \o container_name \o "] currently running, "
                              \o "associated data volume must not be in use for restore")
                   ELSE pc' = "restore:volume_list" /\ UNCHANGED result
    /\ UNCHANGED <<docker, op, live, archive_tar>>

\* restore(): the loop over docker.volume_list() reaches docker.volume_delete()
restore_volume_found(listing, volume_name_data) ==
    \E name \in listing : ~(name # volume_name_data)

\* restore(): the volume listing; a data volume found in it is removed
restore_volume_list ==
    /\ pc = "restore:volume_list"
    /\ \E a \in ClientCall(volume_list_args, "unable to list volumes") :
        /\ Ran(a)
        /\ IF a.error # ""
           THEN Uncaught(a.error) /\ UNCHANGED seen
           ELSE LET listing == volume_list(volumes) IN
                /\ seen' = [seen EXCEPT !.volumes = <<listing>>]
                /\ pc' = IF restore_volume_found(listing, _volume_data_name(op.server_prefix))
                         THEN "restore:volume_delete"
                         ELSE "_image_pull:image_list"
                /\ UNCHANGED result
    /\ UNCHANGED <<docker, op, live, archive_tar>>

\* restore(): docker.volume_delete() inside try/except DockerError
restore_volume_delete ==
    /\ pc = "restore:volume_delete"
    /\ LET volume_name_data == _volume_data_name(op.server_prefix) IN
       \E a \in ClientCall(volume_delete_args(volume_name_data), "unable to delete volume") :
        /\ Ran(a)
        /\ IF a.error # ""
           THEN /\ Fatal("unable to remove existing data volume [" \o volume_name_data \o "]")
                /\ UNCHANGED volumes
           ELSE \* Docker removes a volume that exists
                /\ volume_name_data \in volumes
                /\ volumes' = volumes \ {volume_name_data}
                /\ pc' = "_image_pull:image_list"
                /\ UNCHANGED result
    /\ UNCHANGED <<images, containers, op, seen, live, archive_tar>>

\* restore(): docker.container_run() inside try/except DockerError
restore_container_run ==
    /\ pc = "restore:container_run"
    /\ LET spec == RestoreRunSpec(op) IN
       \E a \in ClientCall(container_run_args(spec), "unable to run image") :
        /\ Ran(a)
        /\ IF a.error # ""
           THEN /\ Fatal("unable to restore data volume ["
                         \o _volume_data_name(op.server_prefix) \o "]")
                /\ UNCHANGED <<images, volumes>>
           ELSE /\ RunEffects(spec)
                /\ Completed("Data volume successfully restored from [" \o op.archive_dir
                             \o "/" \o op.archive_name \o "]")
    /\ UNCHANGED <<containers, op, seen, live, archive_tar>>

-----------------------------------------------------------------------------
(* Docker changed from outside the tool *)

EnvContainer ==
    /\ \E n \in ContainerUniverse, c \in ExternalContainers \cup {Absent} :
        /\ containers[n] # c
        /\ containers' = [containers EXCEPT ![n] = c]
        /\ live' = IF live.name = n THEN NotLive ELSE live
    /\ UNCHANGED <<images, volumes, docker_cli_bin, pc, op, seen, calls, result, archive_tar>>

EnvVolume ==
    /\ \E v \in VolumeUniverse :
        volumes' = IF v \in volumes THEN volumes \ {v} ELSE volumes \cup {v}
    /\ UNCHANGED <<images, containers, docker_cli_bin, pc, op, seen, calls, result, live,
                   archive_tar>>

EnvImage ==
    /\ \E i \in ImageUniverse :
        images' = IF i \in images THEN images \ {i} ELSE images \cup {i}
    /\ UNCHANGED <<containers, volumes, docker_cli_bin, pc, op, seen, calls, result, live,
                   archive_tar>>

-----------------------------------------------------------------------------
(* Specifications *)

Next ==
    \/ Main
    \/ Exit
    \/ _image_pull_image_list
    \/ _image_pull_image_pull
    \/ _volume_create_data
    \/ _volume_create_logs
    \/ start_server_container_list
    \/ start_server_volume_list
    \/ start_server_container_run
    \/ stop_server_container_list
    \/ stop_server_container_stop
    \/ backup_volume_list
    \/ backup_container_run
    \/ restore_verify_archive
    \/ restore_container_list
    \/ restore_volume_list
    \/ restore_volume_delete
    \/ restore_container_run
    \/ EnvContainer
    \/ EnvVolume
    \/ EnvImage

Spec == Init /\ [][Next]_vars

\* _restore_verify_archive() alone, on every archive up to MaxMembers members
InitVerify ==
    /\ images = {}
    /\ containers = [n \in ContainerUniverse |-> Absent]
    /\ volumes = {}
    /\ docker_cli_bin = DockerBinPath
    /\ pc = "restore:_restore_verify_archive"
    /\ op \in {o \in Commands : o.command = "restore"}
    /\ seen = NothingSeen
    /\ calls = <<>>
    /\ result = NoResult
    /\ live = NotLive
    /\ archive_tar \in Archives

verify_given_archive == VerifyArchive(archive_tar)

NextVerify == verify_given_archive

SpecVerify == InitVerify /\ [][NextVerify]_vars

-----------------------------------------------------------------------------
(* docker.py used as a library: any sequence of its functions, called by a
   process that has not located the CLI yet *)

\* the number of client functions one process calls
MaxCalls == 2

\* the run specifications the library caller passes
ClientRunSpecs ==
    {StartRunSpec(o) : o \in {c \in Commands : c.command = "start"}}
        \cup {[RunDefaults EXCEPT !.remove_on_exit = TRUE]
                @@ [image_repository |-> BACKUP_REPOSITORY_NAME]}

\* what one call of a client function gave back: the function, whether
\* _docker_cli_bin was set when it was called, the subprocesses it ran, the
\* message of the DockerError it raised ("" when it returned), the value it
\* returned and _docker_cli_bin after it
ClientReturn(fn, a, value) ==
    result' = Append(result, [fn |-> fn, located |-> docker_cli_bin # "", ran |-> a.ran,
                              error |-> a.error, value |-> value, bin |-> a.bin])

ClientReady == pc = "client" /\ Len(result) < MaxCalls

InitClient ==
    /\ images = {}
    /\ containers = [n \in ContainerUniverse |-> Absent]
    /\ volumes = {}
    /\ docker_cli_bin = ""
    /\ pc = "client"
    /\ op = NoOp
    /\ seen = NothingSeen
    /\ calls = <<>>
    /\ result = <<>>
    /\ live = NotLive
    /\ archive_tar = Unread

\* find_cli() called directly
client_find_cli ==
    /\ ClientReady
    /\ \E f \in find_cli(docker_cli_bin) :
        /\ docker_cli_bin' = f.bin
        /\ calls' = calls \o f.ran
        /\ ClientReturn("find_cli", [ran |-> f.ran, error |-> "", bin |-> f.bin],
                        IF f.found THEN "True" ELSE "False")
    /\ UNCHANGED <<docker, pc, op, seen, live, archive_tar>>

client_image_list ==
    /\ ClientReady
    /\ \E a \in ClientCall(image_list_args, "unable to list images") :
        Ran(a) /\ ClientReturn("image_list", a, "")
    /\ UNCHANGED <<docker, pc, op, seen, live, archive_tar>>

client_container_list ==
    /\ ClientReady
    /\ \E a \in ClientCall(container_list_args, "unable to list containers") :
        Ran(a) /\ ClientReturn("container_list", a, "")
    /\ UNCHANGED <<docker, pc, op, seen, live, archive_tar>>

client_volume_list ==
    /\ ClientReady
    /\ \E a \in ClientCall(volume_list_args, "unable to list volumes") :
        Ran(a) /\ ClientReturn("volume_list", a, "")
    /\ UNCHANGED <<docker, pc, op, seen, live, archive_tar>>

client_image_pull ==
    /\ ClientReady
    /\ \E i \in ImageUniverse :
       \E a \in ClientCall(image_pull_args(i.Repository, i.Tag), "unable to pull image") :
        /\ Ran(a) /\ ClientReturn("image_pull", a, "")
        /\ images' = IF a.error = "" THEN images \cup {i} ELSE images
    /\ UNCHANGED <<containers, volumes, pc, op, seen, live, archive_tar>>

client_volume_create ==
    /\ ClientReady
    /\ \E name \in VolumeUniverse :
       \E a \in ClientCall(volume_create_args(name), "unable to create volume") :
        /\ Ran(a) /\ ClientReturn("volume_create", a, "")
        /\ volumes' = IF a.error = "" THEN volumes \cup {name} ELSE volumes
    /\ UNCHANGED <<images, containers, pc, op, seen, live, archive_tar>>

client_volume_delete ==
    /\ ClientReady
    /\ \E name \in VolumeUniverse :
       \E a \in ClientCall(volume_delete_args(name), "unable to delete volume") :
        /\ Ran(a) /\ ClientReturn("volume_delete", a, "")
        /\ a.error = "" => name \in volumes
        /\ volumes' = IF a.error = "" THEN volumes \ {name} ELSE volumes
    /\ UNCHANGED <<images, containers, pc, op, seen, live, archive_tar>>

\* container_run(**spec): a detached container stays up, an attached one has
\* exited when the call returns; --rm removes a container that exits
ContainerRun(spec) ==
    /\ ClientReady
    /\ \E a \in ClientCall(container_run_args(spec), "unable to run image") :
        /\ Ran(a)
        /\ IF a.error # ""
           THEN ClientReturn("container_run", a, "") /\ UNCHANGED docker
           ELSE /\ spec.name # <<>> => containers[spec.name[1]] = Absent
                /\ containers' =
                    IF spec.name = <<>> THEN containers
                    ELSE [containers EXCEPT ![spec.name[1]] =
                            IF spec.detach
                            THEN [Status |-> StatusUp, rm |-> spec.remove_on_exit]
                            ELSE IF spec.remove_on_exit THEN Absent
                            ELSE [Status |-> StatusExited, rm |-> FALSE]]
                /\ RunEffects(spec)
                /\ \E stdout \in RunStdouts :
                    ClientReturn("container_run", a, container_run_value(stdout))
    /\ UNCHANGED <<pc, op, seen, live, archive_tar>>

client_container_run == \E spec \in ClientRunSpecs : ContainerRun(spec)

client_container_stop ==
    /\ ClientReady
    /\ \E name \in ContainerUniverse :
       \E a \in ClientCall(container_stop_args(name), "unable to stop container") :
        /\ Ran(a) /\ ClientReturn("container_stop", a, "")
        /\ a.error = "" => containers[name] # Absent
        /\ containers' =
            IF a.error # "" THEN containers
            ELSE [containers EXCEPT ![name] =
                    IF @.rm THEN Absent ELSE [Status |-> StatusExited, rm |-> FALSE]]
    /\ UNCHANGED <<images, volumes, pc, op, seen, live, archive_tar>>

NextClient ==
    \/ client_find_cli
    \/ client_image_list
    \/ client_container_list
    \/ client_volume_list
    \/ client_image_pull
    \/ client_volume_create
    \/ client_volume_delete
    \/ client_container_run
    \/ client_container_stop

SpecClient == InitClient /\ [][NextClient]_vars

\* container_run() alone, on every keyword-argument combination up to
\* MaxPublish published ports; `op` holds the arguments
MaxPublish == 2

PortPairs ==
    {<<CONTROLLER_PORT_COMMS, CONTROLLER_PORT_COMMS>>,
     <<CONTROLLER_PORT_GUI, CONTROLLER_PORT_GUI>>,
     <<CONTROLLER_PORT_GUI, CONTROLLER_PORT_COMMS>>}

RunSpecs ==
    ClientRunSpecs
    \cup {[RunDefaults EXCEPT !.detach = d, !.name = n, !.network_host = h,
                              !.publish_list = pl, !.remove_on_exit = r]
            @@ [image_repository |-> CONTROLLER_REPOSITORY_NAME] :
            d \in BOOLEAN, n \in {<<>>} \cup {<<c>> : c \in ContainerUniverse},
            h \in BOOLEAN, pl \in SeqsUpTo(PortPairs, MaxPublish), r \in BOOLEAN}

InitRunArgs ==
    /\ images = {}
    /\ containers = [n \in ContainerUniverse |-> Absent]
    /\ volumes = {}
    /\ docker_cli_bin = ""
    /\ pc = "client"
    /\ op \in RunSpecs
    /\ seen = NothingSeen
    /\ calls = <<>>
    /\ result = <<>>
    /\ live = NotLive
    /\ archive_tar = Unread

container_run_given_spec == ContainerRun(op)

NextRunArgs == container_run_given_spec

SpecRunArgs == InitRunArgs /\ [][NextRunArgs]_vars

-----------------------------------------------------------------------------
(* Reading the call log *)

IsDocker(c) == c.argv[1] # "which"

DockerCalls == SelectSeq(calls, IsDocker)

IsImageList(c) == IsDocker(c) /\ c.argv[2] = "images"

IsContainerList(c) == IsDocker(c) /\ c.argv[2] = "ps"

IsVolumeList(c) == IsDocker(c) /\ c.argv[2] = "volume" /\ c.argv[3] = "ls"

IsPull(c) == IsDocker(c) /\ c.argv[2] = "pull"

IsVolumeCreate(c) == IsDocker(c) /\ c.argv[2] = "volume" /\ c.argv[3] = "create"

IsVolumeDelete(c) == IsDocker(c) /\ c.argv[2] = "volume" /\ c.argv[3] = "rm"

IsRun(c) == IsDocker(c) /\ c.argv[2] = "run"

IsStop(c) == IsDocker(c) /\ c.argv[2] = "stop"

IsMutating(c) == IsPull(c) \/ IsVolumeCreate(c) \/ IsVolumeDelete(c) \/ IsRun(c) \/ IsStop(c)

Issued(Is(_)) == \E i \in 1..Len(calls) : Is(calls[i])

CreateIssued(name) ==
    \E i \in 1..Len(calls) : IsVolumeCreate(calls[i]) /\ calls[i].argv[4] = name

\* flag immediately followed by value in an argument list
HasPair(argv, flag, value) ==
    \E i \in 1..(Len(argv) - 1) : argv[i] = flag /\ argv[i + 1] = value

ServerName == op.server_prefix \o "-server"

DataName == op.server_prefix \o "-data"

LogsName == op.server_prefix \o "-logs"

FatalWith(msg) == result = [kind |-> "FatalError", msg |-> msg]

KeyFiles == {"./db/version", "./db/WiredTiger", "./firmware.json", "./system.properties"}

-----------------------------------------------------------------------------
(* Claims *)

\* C1: Restore issues no Docker call before the archive verifier has passed;
\* for every archive that cannot be opened, is not a tar file or lacks one of
\* the four marker paths, Restore ends in a FatalError having issued no Docker
\* call at all.
C1_RestoreReadOnlyUntilVerified ==
    op.command = "restore" =>
        /\ seen.archive = <<>> => DockerCalls = <<>>
        /\ (seen.archive # <<>>
            /\ (seen.archive[1].kind # "tar" \/ ~seen.archive[1].complete))
           => (DockerCalls = <<>> /\ pc = "done" /\ result.kind = "FatalError")

\* C2: the verifier accepts a tar archive iff each of the four marker paths is
\* a member of it, whatever the order and repetition of its member names; an
\* archive missing a marker fails with the "controller data backup" FatalError.
C2_VerifierAcceptsIffAllMarkers ==
    (seen.archive # <<>> /\ archive_tar.kind = "tar") =>
        IF KeyFiles \subseteq Range(archive_tar.members)
        THEN pc = "restore:container_list" /\ result.kind # "FatalError"
        ELSE FatalWith("archive [" \o op.archive_dir \o "/" \o op.archive_name
                       \o "] doesn't appear to be a controller data backup")

\* C3: once Start has its container listing, it ends in the "already exists"
\* FatalError iff {prefix}-server is in that listing, running or not; and when
\* it is in the listing Start issues no volume create and no run call.
C3_StartAlreadyExists ==
    (op.command = "start" /\ seen.containers # <<>>) =>
        LET present == ServerName \in Keys(seen.containers[1]) IN
        /\ FatalWith("container [" \o ServerName \o "] already exists") <=> present
        /\ present => ~Issued(IsVolumeCreate) /\ ~Issued(IsRun)

\* C3 witness: Start met a stopped container of that name and was refused.
C3_Witness ==
    /\ op.command = "start"
    /\ seen.containers # <<>>
    /\ \E p \in seen.containers[1] : p[1] = ServerName /\ ~p[2].running
    /\ FatalWith("container [" \o ServerName \o "] already exists")

\* C4: no lifecycle operation ends with a raw DockerError: every runtime-call
\* error leaves the operation as a FatalError.
C4_NoRawRuntimeError == result.kind # "DockerError"

\* C5: once Restore has its container listing, it ends in the "currently
\* running" FatalError iff {prefix}-server is in that listing with
\* running=true; and when it is, no volume delete is issued.
C5_RestoreBlockedIffRunning ==
    (op.command = "restore" /\ seen.containers # <<>>) =>
        LET listed == \E p \in seen.containers[1] : p[1] = ServerName /\ p[2].running IN
        /\ FatalWith("container [" \o ServerName \o "] currently running, "
                     \o "associated data volume must not be in use for restore") <=> listed
        /\ listed => ~Issued(IsVolumeDelete)

\* C5 witness: Restore met a stopped container of that name and went on to
\* delete the data volume.
C5_Witness ==
    /\ op.command = "restore"
    /\ seen.containers # <<>>
    /\ \E p \in seen.containers[1] : p[1] = ServerName /\ ~p[2].running
    /\ Issued(IsVolumeDelete)

\* C6: once Stop has its container listing, it fails without having issued a
\* stop call iff {prefix}-server is absent from that listing or listed with
\* running=false.
C6_StopFailsIffAbsentOrStopped ==
    (op.command = "stop" /\ seen.containers # <<>>) =>
        LET listed == \E p \in seen.containers[1] : p[1] = ServerName /\ p[2].running IN
        (result.kind \in {"FatalError", "DockerError"} /\ ~Issued(IsStop)) <=> ~listed

\* C6 witness: Stop met a stopped container of that name and was refused.
C6_Witness ==
    /\ op.command = "stop"
    /\ seen.containers # <<>>
    /\ \E p \in seen.containers[1] : p[1] = ServerName /\ ~p[2].running
    /\ result.kind = "FatalError"
    /\ ~Issued(IsStop)

\* C7 as stated: once Backup has its volume listing, it ends in a FatalError
\* iff {prefix}-data is absent from that listing; when it is absent no pull and
\* no run call is issued; Backup never lists containers.
C7_BackupFatalIffVolumeAbsent ==
    (op.command = "backup" /\ seen.volumes # <<>> /\ pc = "done") =>
        /\ result.kind = "FatalError" <=> DataName \notin seen.volumes[1]
        /\ DataName \notin seen.volumes[1] => ~Issued(IsPull) /\ ~Issued(IsRun)
        /\ ~Issued(IsContainerList)

\* C7 amended: once Backup has its volume listing, it ends in the "does not
\* exist for backup" FatalError iff {prefix}-data is absent from that listing;
\* when it is absent no pull and no run call is issued; Backup never lists
\* containers.
C7_BackupRefusedIffVolumeAbsent ==
    op.command = "backup" =>
        /\ ~Issued(IsContainerList)
        /\ seen.volumes # <<>> =>
            /\ FatalWith("data volume [" \o DataName \o "] does not exist for backup")
                <=> DataName \notin seen.volumes[1]
            /\ DataName \notin seen.volumes[1] => ~Issued(IsPull) /\ ~Issued(IsRun)

\* C7 witness: Backup listed the volumes, found only the logs volume and was
\* refused.
C7_Witness ==
    /\ op.command = "backup"
    /\ seen.volumes = <<{LogsName}>>
    /\ FatalWith("data volume [" \o DataName \o "] does not exist for backup")

\* C8 as stated: a Start on a prefix whose server container an earlier Start
\* launched, and which was not stopped or removed since, always ends in the
\* "already exists" FatalError and issues no run call.
C8_SecondStartAlreadyExists ==
    (op.command = "start" /\ live = [name |-> ServerName, by |-> "earlier"] /\ pc = "done") =>
        /\ FatalWith("container [" \o ServerName \o "] already exists")
        /\ ~Issued(IsRun)

\* C8 amended: such a second Start never issues a run call and never succeeds,
\* and it ends in the "already exists" FatalError as soon as it has its
\* container listing; any Start issues its run call only after a container
\* listing without {prefix}-server.
C8_SecondStartNeverRuns ==
    op.command = "start" =>
        /\ Issued(IsRun) => (seen.containers # <<>>
                             /\ ServerName \notin Keys(seen.containers[1]))
        /\ live = [name |-> ServerName, by |-> "earlier"] =>
            /\ ~Issued(IsRun)
            /\ result.kind # "ok"
            /\ seen.containers # <<>> =>
                FatalWith("container [" \o ServerName \o "] already exists")

\* C8 witness: the second Start was refused with "already exists".
C8_Witness ==
    /\ op.command = "start"
    /\ live = [name |-> ServerName, by |-> "earlier"]
    /\ FatalWith("container [" \o ServerName \o "] already exists")

DataCreateFailed ==
    \E i \in 1..Len(calls) :
        IsVolumeCreate(calls[i]) /\ calls[i].argv[4] = DataName /\ calls[i].code # 0

\* C9 as stated: in a Start that took its volume listing, a create call is issued
\* for {prefix}-data, and for {prefix}-logs, iff the name is absent from that
\* listing, and Start issues no volume delete.
C9_CreateIffAbsent ==
    (op.command = "start" /\ seen.volumes # <<>> /\ pc = "done") =>
        /\ CreateIssued(DataName) <=> DataName \notin seen.volumes[1]
        /\ CreateIssued(LogsName) <=> LogsName \notin seen.volumes[1]
        /\ ~Issued(IsVolumeDelete)

\* C9 amended: Start issues a create call only for a name absent from its
\* volume listing and never a volume delete; once it is past the volume step,
\* the create for {prefix}-data was issued iff the name was absent from the
\* listing, and the create for {prefix}-logs iff the name was absent and the
\* create of {prefix}-data did not fail.
C9_CreateIffAbsentAndReached ==
    op.command = "start" =>
        /\ ~Issued(IsVolumeDelete)
        /\ \A i \in 1..Len(calls) :
            IsVolumeCreate(calls[i]) =>
                (seen.volumes # <<>>
                 /\ calls[i].argv[4] \in {DataName, LogsName} \ seen.volumes[1])
        /\ (seen.volumes # <<>> /\ pc \in {"start_server:container_run", "done"}) =>
            /\ CreateIssued(DataName) <=> DataName \notin seen.volumes[1]
            /\ CreateIssued(LogsName) <=>
                (LogsName \notin seen.volumes[1] /\ ~DataCreateFailed)

\* C9 witness: Start found the data volume listed and the logs volume missing,
\* created only the logs volume and completed.
C9_Witness ==
    /\ op.command = "start"
    /\ seen.volumes = <<{DataName}>>
    /\ result.kind = "ok"
    /\ CreateIssued(LogsName)
    /\ ~CreateIssued(DataName)

MutatingCalls == SelectSeq(calls, IsMutating)

\* the scenario of C10: Start saw no image, no container and no volume of the
\* prefix, and every subprocess it ran exited zero
C10_Scenario ==
    /\ op.command = "start"
    /\ seen.image = <<FALSE>>
    /\ seen.containers # <<>>
    /\ ServerName \notin Keys(seen.containers[1])
    /\ seen.volumes # <<>>
    /\ seen.volumes[1] \cap {DataName, LogsName} = {}
    /\ \A i \in 1..Len(calls) : calls[i].code = 0

\* C10: in that scenario a finished Start has completed without error and its
\* mutating calls are, in this order: pull of the controller image, create
\* {prefix}-data, create {prefix}-logs, one detached --rm run of the controller
\* image named {prefix}-server with both volumes mounted.
C10_StartFromNothing ==
    (C10_Scenario /\ pc = "done") =>
        LET m == MutatingCalls
            image == "magnetikonline/unifi-network-controller:" \o op.image_tag IN
        /\ result.kind = "ok"
        /\ Len(m) = 4
        /\ IsPull(m[1]) /\ m[1].argv[Len(m[1].argv)] = image
        /\ IsVolumeCreate(m[2]) /\ m[2].argv[4] = DataName
        /\ IsVolumeCreate(m[3]) /\ m[3].argv[4] = LogsName
        /\ IsRun(m[4])
        /\ "--detach" \in Range(m[4].argv)
        /\ "--rm" \in Range(m[4].argv)
        /\ m[4].argv[Len(m[4].argv)] = image
        /\ HasPair(m[4].argv, "--name", ServerName)
        /\ HasPair(m[4].argv, "--mount",
                   "type=volume,src=" \o DataName \o ",dst=/usr/lib/unifi/data")
        /\ HasPair(m[4].argv, "--mount",
                   "type=volume,src=" \o LogsName \o ",dst=/usr/lib/unifi/logs")

\* C10 witness: such a Start has finished.
C10_Witness == C10_Scenario /\ pc = "done" /\ result.kind = "ok"

-----------------------------------------------------------------------------
(* C11: Stop of a running server *)

StopCalls == SelectSeq(calls, IsStop)

\* C11: when the container listing of a Stop shows {prefix}-server running,
\* the only mutating call the Stop issues is one `stop` of exactly that name;
\* a finished Stop has issued it exactly once, and has completed without
\* error when that call exited zero.
C11_StopOfRunningServer ==
    (/\ op.command = "stop"
     /\ seen.containers # <<>>
     /\ \E p \in seen.containers[1] : p[1] = ServerName /\ p[2].running) =>
        /\ MutatingCalls = StopCalls
        /\ Len(StopCalls) <= 1
        /\ \A i \in 1..Len(StopCalls) :
            StopCalls[i].argv = <<docker_cli_bin, "stop", ServerName>>
        /\ pc = "done" =>
            /\ Len(StopCalls) = 1
            /\ StopCalls[1].code = 0 => result.kind = "ok"

\* C11 witness: a Stop that saw the server running has issued its stop call,
\* the call exited zero and the Stop completed.
C11_Witness ==
    /\ op.command = "stop"
    /\ seen.containers # <<>>
    /\ \E p \in seen.containers[1] : p[1] = ServerName /\ p[2].running
    /\ pc = "done"
    /\ Len(StopCalls) = 1
    /\ StopCalls[1].code = 0
    /\ result = [kind |-> "ok", msg |-> "Server has stopped"]

-----------------------------------------------------------------------------
(* C12, C18: locating the CLI *)

IsWhich(c) == c.argv = <<"which", "docker">>

WhichCalls == SelectSeq(calls, IsWhich)

ClientOperations ==
    {"image_list", "container_list", "volume_list", "image_pull", "volume_create",
     "volume_delete", "container_run", "container_stop"}

NotLocated == "unable to locate Docker CLI"

\* C12 as stated: every client operation called while no path is cached fails
\* with the "unable to locate Docker CLI" error.
C12_UnlocatedCallFails ==
    \A i \in 1..Len(result) :
        (result[i].fn \in ClientOperations /\ ~result[i].located) =>
            result[i].error = NotLocated

\* C12: a client operation called while no path is cached first runs `which
\* docker` itself; it fails with the "unable to locate Docker CLI" error, having
\* run nothing else, exactly when that lookup exits non-zero, and otherwise
\* goes on to run its docker command.  Called with a path cached it never
\* fails with that error.
C12_UnlocatedCallLocatesFirst ==
    \A i \in 1..Len(result) :
        result[i].fn \in ClientOperations =>
            LET r == result[i] IN
            IF r.located
            THEN r.error # NotLocated /\ Len(r.ran) = 1 /\ IsDocker(r.ran[1])
            ELSE /\ Len(r.ran) >= 1 /\ IsWhich(r.ran[1])
                 /\ r.ran[1].code # 0 <=> r.error = NotLocated
                 /\ r.error = NotLocated => Len(r.ran) = 1
                 /\ r.error # NotLocated => Len(r.ran) = 2 /\ IsDocker(r.ran[2])

\* C12 witness: the first thing the process called was a client operation; it
\* located the CLI on demand and returned without error.
C12_Witness ==
    /\ pc = "client"
    /\ Len(result) >= 1
    /\ result[1].fn \in ClientOperations
    /\ ~result[1].located
    /\ result[1].error = ""
    /\ Len(result[1].ran) = 2

\* C18 as stated: `which` is run at most once in a process, a cached path is
\* never changed, and a locate with a path cached returns true without a
\* subprocess.
C18_WhichAtMostOnce ==
    /\ Len(WhichCalls) <= 1
    /\ \A i \in 1..Len(result) :
        /\ \A j \in (i + 1)..Len(result) :
            result[i].bin # "" => result[j].bin = result[i].bin
        /\ result[i].located =>
            /\ \A k \in 1..Len(result[i].ran) : ~IsWhich(result[i].ran[k])
            /\ result[i].fn = "find_cli" => result[i].value = "True"

\* C18: `which` exits zero at most once in a process and is not run again
\* after that (every lookup before it exited non-zero and cached nothing); a
\* cached path is never changed, and a locate with a path cached returns true
\* without a subprocess.
C18_WhichUntilFound ==
    /\ \A k \in 1..Len(WhichCalls) : WhichCalls[k].code = 0 => k = Len(WhichCalls)
    /\ docker_cli_bin # "" <=>
        (WhichCalls # <<>> /\ WhichCalls[Len(WhichCalls)].code = 0)
    /\ \A i \in 1..Len(result) :
        /\ \A j \in (i + 1)..Len(result) :
            result[i].bin # "" => result[j].bin = result[i].bin
        /\ result[i].located =>
            /\ \A k \in 1..Len(result[i].ran) : ~IsWhich(result[i].ran[k])
            /\ result[i].fn = "find_cli" => result[i].value = "True"

\* C18 witness: a call cached the path and a later find_cli() answered true
\* from the cache, the process having run `which` once.
C18_Witness ==
    /\ pc = "client"
    /\ Len(result) = 2
    /\ ~result[1].located /\ result[1].bin # ""
    /\ result[2].fn = "find_cli" /\ result[2].located /\ result[2].ran = <<>>
    /\ result[2].value = "True" /\ result[2].bin = result[1].bin
    /\ Len(WhichCalls) = 1

-----------------------------------------------------------------------------
(* C13: published ports and host networking *)

RunCalls == SelectSeq(calls, IsRun)

\* the values that follow `flag` in an argument list, in order
RECURSIVE ValuesOf(_, _)
ValuesOf(argv, flag) ==
    IF Len(argv) < 2 THEN <<>>
    ELSE IF argv[1] = flag
    THEN <<argv[2]>> \o ValuesOf(SubSeq(argv, 3, Len(argv)), flag)
    ELSE ValuesOf(Tail(argv), flag)

\* C13: in the argument list container_run() builds from arguments `op`,
\* with host networking enabled there is `--network host` and no `--publish`;
\* with it disabled there is no `--network` and the `--publish` values are
\* exactly one `host:container/tcp` per requested port pair, in order (for
\* the arguments of Start, the ones mounting two volumes: 8080:8080/tcp and
\* 8443:8443/tcp).  Never both
\* `--network host` and a `--publish`.
C13_PublishIffNoHostNetwork ==
    \A i \in 1..Len(RunCalls) :
        LET argv == RunCalls[i].argv
            published == ValuesOf(argv, "--publish") IN
        /\ ~(HasPair(argv, "--network", "host") /\ "--publish" \in Range(argv))
        /\ HasPair(argv, "--network", "host") <=> op.network_host
        /\ ~op.network_host => "--network" \notin Range(argv)
        /\ op.network_host => "--publish" \notin Range(argv)
        /\ ~op.network_host =>
            /\ Len(published) = Len(op.publish_list)
            /\ \A k \in 1..Len(published) :
                published[k] = ToString(op.publish_list[k][1]) \o ":"
                                \o ToString(op.publish_list[k][2]) \o "/tcp"
        /\ (Len(op.volume_list) = 2 /\ op.detach /\ ~op.network_host) =>
            published = <<"8080:8080/tcp", "8443:8443/tcp">>

\* C13 witness: a run call was built for the arguments of a Start with host
\* networking disabled, publishing both ports.
C13_Witness ==
    /\ RunCalls # <<>>
    /\ ~op.network_host
    /\ Len(op.volume_list) = 2
    /\ Len(ValuesOf(RunCalls[1].argv, "--publish")) = 2

-----------------------------------------------------------------------------
(* C14: the calls of a successful Restore *)

\* the docker calls of a Restore that completed: container listing, volume
\* listing, delete of {prefix}-data exactly when the listing named it, image
\* listing and (image not listed) pull of the backup image, one create of
\* {prefix}-data, one run, and nothing else
C14_RestoreCalls ==
    (op.command = "restore" /\ result.kind = "ok") =>
        LET d == DockerCalls
            listed == DataName \in seen.volumes[1]
            k == IF listed THEN 3 ELSE 2
            c == k + (IF seen.image[1] THEN 2 ELSE 3) IN
        /\ Len(d) = c + 1
        /\ IsContainerList(d[1])
        /\ IsVolumeList(d[2])
        /\ listed => IsVolumeDelete(d[3]) /\ d[3].argv[4] = DataName
        /\ IsImageList(d[k + 1])
        /\ ~seen.image[1] =>
            IsPull(d[k + 2]) /\ d[k + 2].argv[4] = "alpine:latest"
        /\ IsVolumeCreate(d[c]) /\ d[c].argv[4] = DataName
        /\ IsRun(d[c + 1])
        /\ \A i \in 1..Len(d) : d[i].code = 0

\* C14: a Restore that completes successfully has issued, in this order, the
\* volume delete of {prefix}-data (exactly when the volume listing named it,
\* once), the calls ensuring the backup-utility image, exactly one volume
\* create of {prefix}-data and exactly one container run; and when it
\* completes the data volume exists.
C14_RestoreOrder ==
    /\ []C14_RestoreCalls
    /\ [][(op.command = "restore" /\ result.kind # "ok" /\ result'.kind = "ok") =>
            DataName \in volumes']_vars

\* C14 witness: a Restore that found the data volume listed has deleted it,
\* pulled the image, created the volume, run the restore and completed.
C14_Witness ==
    /\ op.command = "restore"
    /\ result.kind = "ok"
    /\ seen.volumes = <<{DataName}>>
    /\ seen.image = <<FALSE>>
    /\ Len(MutatingCalls) = 4
    /\ IsVolumeDelete(MutatingCalls[1])

-----------------------------------------------------------------------------
(* C15: no retries *)

\* C15: a subprocess that exited non-zero is the last one its process ran,
\* and the process has ended with an error; no mutating call is issued twice
\* for the same resource within one operation, and an operation issues at
\* most one run.
C15_NoRetry ==
    /\ \A i \in 1..Len(calls) :
        calls[i].code # 0 =>
            /\ i = Len(calls)
            /\ pc = "done"
            /\ result.kind \in {"FatalError", "DockerError", "exit_error"}
    /\ \A i, j \in 1..Len(MutatingCalls) :
        MutatingCalls[i].argv = MutatingCalls[j].argv => i = j
    /\ Len(RunCalls) <= 1

\* C15 witness: the volume create of a Start failed after its pull succeeded;
\* the Start has ended in a Fatal error with the failed create as its last call.
C15_Witness ==
    /\ op.command = "start"
    /\ pc = "done"
    /\ result.kind = "FatalError"
    /\ Len(MutatingCalls) = 2
    /\ IsPull(MutatingCalls[1]) /\ MutatingCalls[1].code = 0
    /\ IsVolumeCreate(calls[Len(calls)]) /\ calls[Len(calls)].code # 0

-----------------------------------------------------------------------------
(* C16: Start does not roll back *)

PullFailed ==
    /\ calls # <<>>
    /\ IsPull(calls[Len(calls)])
    /\ calls[Len(calls)].code # 0

\* C16: a Start never issues a volume delete; the step in which its run call
\* fails ends it in the "unable to start server" Fatal error with the run as
\* its last call and leaves every volume in place, the ones it created
\* included; and a Start whose image pull failed has ended in a Fatal error
\* having issued no container listing, no volume create and no run.
C16_StartNoRollback ==
    /\ [](op.command = "start" =>
            /\ ~Issued(IsVolumeDelete)
            /\ PullFailed =>
                /\ pc = "done"
                /\ result.kind = "FatalError"
                /\ ~Issued(IsContainerList)
                /\ ~Issued(IsVolumeCreate)
                /\ ~Issued(IsRun))
    /\ [][(pc = "start_server:container_run" /\ calls' # calls
           /\ calls'[Len(calls')].code # 0) =>
            /\ IsRun(calls'[Len(calls')])
            /\ Len(calls') = Len(calls) + 1
            /\ pc' = "done"
            /\ result' = [kind |-> "FatalError", msg |-> "unable to start server"]
            /\ volumes' = volumes]_vars

\* C16 witness: a Start created both volumes, its run call failed, it has
\* ended in the Fatal error and both volumes exist.
C16_Witness ==
    /\ op.command = "start"
    /\ pc = "done"
    /\ FatalWith("unable to start server")
    /\ \E i \in 1..Len(calls) :
        IsVolumeCreate(calls[i]) /\ calls[i].argv[4] = DataName /\ calls[i].code = 0
    /\ \E i \in 1..Len(calls) :
        IsVolumeCreate(calls[i]) /\ calls[i].argv[4] = LogsName /\ calls[i].code = 0
    /\ {DataName, LogsName} \subseteq volumes

-----------------------------------------------------------------------------
(* C17: the value of container_run() *)

\* the lines of an output text: the pieces between its newlines, the empty
\* pieces at its end not counted
RECURSIVE OutputLines(_)
OutputLines(output) ==
    IF output # <<>> /\ output[Len(output)] = ""
    THEN OutputLines(SubSeq(output, 1, Len(output) - 1))
    ELSE output

\* C17: a Start whose run call exited non-zero got no value from it and
\* ended in a Fatal error; a Start whose run call exited zero completed
\* without error whatever the call printed, and the value it reports is the
\* printed line when the output was exactly one line and False (no id) when
\* it was no line or several.
C17_RunValue ==
    (op.command = "start" /\ RunCalls # <<>> /\ pc = "done") =>
        IF RunCalls[1].code # 0
        THEN result.kind = "FatalError" /\ seen.stdout = <<>>
        ELSE /\ seen.stdout # <<>>
             /\ result.kind = "ok"
             /\ LET lines == OutputLines(seen.stdout[1]) IN
                /\ Len(lines) = 1 =>
                    result.msg = "Running as container ID [" \o lines[1] \o "]"
                /\ Len(lines) # 1 => result.msg = "Running as container ID [False]"

\* C17 witness: the run call of a Start exited zero and printed two lines;
\* the Start completed reporting no id.
C17_Witness ==
    /\ op.command = "start"
    /\ pc = "done"
    /\ RunCalls # <<>> /\ RunCalls[1].code = 0
    /\ seen.stdout = <<<<"warning", "c0ffee", "">>>>
    /\ result = [kind |-> "ok", msg |-> "Running as container ID [False]"]

-----------------------------------------------------------------------------
(* C19: the check of Start and its run call are not atomic *)

\* the container name was in use when the Start issued its run call
RunIssuedWhileInUse ==
    /\ op.command = "start"
    /\ seen.in_use = <<TRUE>>

-----------------------------------------------------------------------------
(* C20: what Backup and Restore leave alone *)

\* the calls of a Backup or Restore: no stop, no run that names a container
\* {prefix}-server, no volume create or delete by a Backup, and by a Restore
\* only of {prefix}-data
C20_BackupRestoreCalls ==
    op.command \in {"backup", "restore"} =>
        \A i \in 1..Len(calls) :
            /\ ~IsStop(calls[i])
            /\ IsRun(calls[i]) =>
                /\ ~HasPair(calls[i].argv, "--name", ServerName)
                /\ "--name" \notin Range(calls[i].argv)
            /\ (IsVolumeCreate(calls[i]) \/ IsVolumeDelete(calls[i])) =>
                /\ op.command = "restore"
                /\ calls[i].argv[4] = DataName

\* C20: a Backup issues no volume create or delete, a Restore issues them
\* only for {prefix}-data, neither issues a stop call or a run call named
\* {prefix}-server; and no step of a Backup or Restore, whatever its outcome,
\* changes whether {prefix}-logs exists or anything about the server
\* container.
C20_BackupRestoreFrame ==
    /\ []C20_BackupRestoreCalls
    /\ [][(op.command \in {"backup", "restore"} /\ calls' # calls) =>
            /\ containers' = containers
            /\ (LogsName \in volumes') <=> (LogsName \in volumes)]_vars

\* C20 witness: a Restore has deleted and re-created the data volume and
\* completed while the server container exists stopped and the logs volume
\* exists.
C20_Witness ==
    /\ op.command = "restore"
    /\ result.kind = "ok"
    /\ Issued(IsVolumeDelete)
    /\ Issued(IsVolumeCreate)
    /\ containers[ServerName] # Absent
    /\ LogsName \in volumes

====
